---- MODULE Spec2Model ----
(***************************************************************************)
(* Model of scripts/reset-admin.py: the CloudBox admin password reset     *)
(* tool.  One run of the script is a sequential process; pc is its        *)
(* position in main().  Strings read from the terminal are sequences of   *)
(* one-character strings.  The users table is a set of rows; `users' is   *)
(* the committed table, `pending' the table as seen inside the open       *)
(* transaction of the script's connection.  The terminal is the           *)
(* environment: `typed' holds the line the operator has entered at the    *)
(* current prompt and the program has not read yet.                       *)
(***************************************************************************)
EXTENDS Integers, Sequences, FiniteSets, TLC

VARIABLES pc, typed, conn, cursor, email, password, confirm_password,
          response, hashed_password, user, name, users, pending, users0,
          idSeq, now, exitCode, diag, exc, excAt, rolledBack, namePrompted,
          rejection

vars == <<pc, typed, conn, cursor, email, password, confirm_password,
          response, hashed_password, user, name, users, pending, users0,
          idSeq, now, exitCode, diag, exc, excAt, rolledBack, namePrompted,
          rejection>>

(* ------------------------------ bounds --------------------------------- *)
MaxEmailLen == 5
MaxPasswordLen == 7
MaxNameLen == 1
MaxPad == 1
NumSalts == 2
MaxTick == 1

(* ------------------------- program constants --------------------------- *)
MinPasswordLen == 6

SeqsUpTo(S, n) == UNION {[1..k -> S] : k \in 0..n}

EmailChars == {"a", "@", "."}
NameChars == {"b"}

\* k spaces
Spaces(k) == [i \in 1..k |-> " "]

\* the lines made of a text of S with up to MaxPad spaces on either side
Padded(S) == {Spaces(l) \o s \o Spaces(r) : s \in S, l \in 0..MaxPad, r \in 0..MaxPad}

\* lines typed at the email prompt
EmailInputs == Padded(SeqsUpTo(EmailChars, MaxEmailLen))
\* lines typed at the two password prompts: the empty line and the lines
\* p...p and p...pq of the lengths around the minimum
PasswordInputs ==
    {[i \in 1..k |-> IF i = k THEN c ELSE "p"] :
        k \in {0} \cup ((MinPasswordLen - 1)..MaxPasswordLen), c \in {"p", "q"}}
\* lines typed at the yes/no prompt
ResponseInputs ==
    Padded({<<>>, <<"y">>, <<"Y">>, <<"n">>, <<"N">>, <<"y", "e">>, <<"n", "o">>,
            <<"y", "e", "s">>, <<"Y", "E", "S">>, <<"Y", "e", "s">>,
            <<"y", "E", "s">>, <<"y", " ", "e", "s">>, <<"y", "e", "s", "s">>,
            <<"y", "y">>})
\* lines typed at the name prompt
NameInputs == Padded(SeqsUpTo(NameChars, MaxNameLen))
\* lines typed at the acknowledgement of the default URL
AckInputs == {<<>>}
Salts == 1..NumSalts

(* --------------------------- string helpers ---------------------------- *)
IsSpace(c) == c = " "

RECURSIVE LStrip(_)
LStrip(s) == IF s # <<>> /\ IsSpace(Head(s)) THEN LStrip(Tail(s)) ELSE s

RECURSIVE RStrip(_)
RStrip(s) == IF s # <<>> /\ IsSpace(s[Len(s)])
             THEN RStrip(SubSeq(s, 1, Len(s) - 1)) ELSE s

\* str.strip()
Strip(s) == RStrip(LStrip(s))

LowerChar(c) == CASE c = "Y" -> "y"
                  [] c = "E" -> "e"
                  [] c = "S" -> "s"
                  [] c = "N" -> "n"
                  [] c = "O" -> "o"
                  [] c = "A" -> "a"
                  [] c = "B" -> "b"
                  [] OTHER -> c

UpperChar(c) == CASE c = "y" -> "Y"
                  [] c = "e" -> "E"
                  [] c = "s" -> "S"
                  [] c = "n" -> "N"
                  [] c = "o" -> "O"
                  [] c = "a" -> "A"
                  [] c = "b" -> "B"
                  [] OTHER -> c

IsCased(c) == LowerChar(c) # UpperChar(c)

\* str.lower()
Lower(s) == [i \in 1..Len(s) |-> LowerChar(s[i])]

\* str.title(): a cased character is upper-cased when it follows an
\* uncased one (or starts the string) and lower-cased otherwise
Title(s) == [i \in 1..Len(s) |->
               IF i = 1 \/ ~IsCased(s[i - 1]) THEN UpperChar(s[i])
               ELSE LowerChar(s[i])]

\* str.replace('.', ' ')
ReplaceDots(s) == [i \in 1..Len(s) |-> IF s[i] = "." THEN " " ELSE s[i]]

\* str.split('@')[0]: the text before the first '@' (all of it if none)
SplitAtHead(s) ==
    IF \E i \in 1..Len(s) : s[i] = "@"
    THEN LET i == CHOOSE k \in 1..Len(s) :
                     s[k] = "@" /\ \A m \in 1..(k - 1) : s[m] # "@"
         IN SubSeq(s, 1, i - 1)
    ELSE s

(* ------------------------- input validation ---------------------------- *)
\* re.match(r'^[^@]+@[^@]+\.[^@]+$', s): positions i of the '@' and j of
\* the literal dot, every other position matched by [^@]
EmailRegexMatchNoDot(s) ==
    \E i \in 1..Len(s) :
        /\ s[i] = "@"
        /\ i >= 2
        /\ i + 1 <= Len(s)
        /\ \A k \in 1..Len(s) : k # i => s[k] # "@"

EmailRegexMatch(s) ==
    \E i \in 1..Len(s), j \in 1..Len(s) :
        /\ s[i] = "@"
        /\ s[j] = "."
        /\ i >= 2
        /\ j >= i + 2
        /\ j + 1 <= Len(s)
        /\ \A k \in 1..Len(s) : k # i => s[k] # "@"

\* len(password) < 6
PasswordTooShortOffByOne(p) == Len(p) < MinPasswordLen - 1

PasswordTooShort(p) == Len(p) < MinPasswordLen

\* password != confirm_password
PasswordMismatch(p, c) == p # c

\* response in ['yes', 'y']
IsAffirmativeDefaultYes(r) == r \in {<<"y", "e", "s">>, <<"y">>, <<>>}

IsAffirmative(r) == r \in {<<"y", "e", "s">>, <<"y">>}

\* get_name_input: default derived from the email's local part
DefaultName(e) == Title(ReplaceDots(SplitAtHead(e)))

ChooseName(line, e) == IF Strip(line) # <<>> THEN Strip(line) ELSE DefaultName(e)

(* --------------------------- password hash ----------------------------- *)
\* bcrypt.hashpw(password, salt): a self-contained hash string holding the
\* algorithm identifier, the salt and a digest of salt and password
Hashpw(pw, salt) == [alg |-> "2b", salt |-> salt, digest |-> <<salt, pw>>]

\* bcrypt.checkpw(password, hash)
Checkpw(pw, h) == Hashpw(pw, h.salt) = h

NoHash == [alg |-> "", salt |-> 0, digest |-> <<0, <<>>>>]

(* ----------------------------- users table ----------------------------- *)
Row(id, created, updated, e, n, h, role, active) ==
    [id |-> id, created_at |-> created, updated_at |-> updated, email |-> e,
     name |-> n, password_hash |-> h, role |-> role, is_active |-> active]

ExistingRow1 ==
    Row(1, 0, 0, <<"a", "@", "a", ".", "a">>, <<"B", "o">>,
        Hashpw(<<"o", "l", "d", "p", "w", "1">>, 1), "user", FALSE)

ExistingRow2 ==
    Row(2, 0, 0, <<"a", "@", ".", ".", "a">>, <<"A", "l">>,
        Hashpw(<<"p", "p", "p", "p", "p", "p">>, 1), "admin", TRUE)

\* the tables the run may find: emails are unique, ids come from the sequence
InitialTables == {{}, {ExistingRow1}, {ExistingRow2}, {ExistingRow1, ExistingRow2}}

\* SELECT id, name, email, role, is_active FROM users WHERE email = %s,
\* then fetchone(): the set of matching rows (empty for None)
SelectByEmail(tbl, e) == {r \in tbl : r.email = e}

\* INSERT INTO users (...) VALUES (now, now, email, name, hash, 'admin', True)
InsertRowAsUser(tbl, id, created, updated, e, n, h) ==
    tbl \cup {Row(id, created, updated, e, n, h, "user", TRUE)}

InsertRow(tbl, id, created, updated, e, n, h) ==
    tbl \cup {Row(id, created, updated, e, n, h, "admin", TRUE)}

\* UPDATE users SET password_hash, role, is_active, updated_at WHERE email = %s
UpdateRowsNoWhere(tbl, e, h, t) ==
    {[r EXCEPT !.password_hash = h, !.role = "admin",
               !.is_active = TRUE, !.updated_at = t] : r \in tbl}

UpdateRows(tbl, e, h, t) ==
    {IF r.email = e
     THEN [r EXCEPT !.password_hash = h, !.role = "admin",
                    !.is_active = TRUE, !.updated_at = t]
     ELSE r : r \in tbl}

\* conn.commit(): the transaction's view becomes the committed table
TxCommit(committed, txn) == txn

\* conn.rollback(): the transaction's changes are dropped
TxRollbackCommits(committed, txn) == txn

TxRollback(committed, txn) == committed

(* --------------------------- process exits ----------------------------- *)
\* exit status of the process for the exception that ended main()
\* ("none": main returned normally)
ExitStatusIgnoringInterrupt(e) == IF e \in {"none", "KeyboardInterrupt"} THEN 0 ELSE 1

ExitStatus(e) == IF e = "none" THEN 0 ELSE 1

Prompts == {"ack", "email", "password", "confirm_password", "confirm", "name"}

\* the lines the operator may enter at a prompt
InputsAt(p) == CASE p = "ack" -> AckInputs
                 [] p = "email" -> EmailInputs
                 [] p = "password" -> PasswordInputs
                 [] p = "confirm_password" -> PasswordInputs
                 [] p = "confirm" -> ResponseInputs
                 [] p = "name" -> NameInputs

(* ------------------------------- state --------------------------------- *)
Init ==
    /\ pc = "start"
    /\ typed = <<>>
    /\ conn = "none"
    /\ cursor = "none"
    /\ email = <<>>
    /\ password = <<>>
    /\ confirm_password = <<>>
    /\ response = <<>>
    /\ hashed_password = NoHash
    /\ user = {}
    /\ name = <<>>
    /\ users \in InitialTables
    /\ pending = users
    /\ users0 = users
    /\ idSeq = 2
    /\ now = 1
    /\ exitCode = -1
    /\ diag = ""
    /\ exc = "none"
    /\ excAt = ""
    /\ rolledBack = FALSE
    /\ namePrompted = FALSE
    /\ rejection = ""

\* the process ends: e is the exception that ended main() ("none" for a
\* normal return), at the position it was raised, msg the last diagnostic
Terminate(e, at, msg) ==
    /\ pc' = "exit"
    /\ exc' = e
    /\ excAt' = at
    /\ diag' = msg
    /\ exitCode' = ExitStatus(e)

\* finally: cursor.close(); conn.close()
Finally ==
    /\ cursor' = "closed"
    /\ conn' = "closed"

\* except Exception inside main(): conn.rollback(), diagnostic, sys.exit(1),
\* then the finally block
ExceptHandler(e) ==
    /\ rolledBack' = TRUE
    /\ users' = TxRollback(users, pending)
    /\ pending' = users'
    /\ Terminate(e, pc, "Database error")
    /\ Finally

(* --------------------------- the terminal ------------------------------ *)
\* the operator enters a line at the prompt the program is waiting at
TypeLine ==
    /\ pc \in Prompts
    /\ typed = <<>>
    /\ \E line \in InputsAt(pc) : typed' = <<line>>
    /\ UNCHANGED <<pc, conn, cursor, email, password, confirm_password,
                   response, hashed_password, user, name, users, pending,
                   users0, idSeq, now, exitCode, diag, exc, excAt, rolledBack,
                   namePrompted, rejection>>

(* ------------------------------ actions -------------------------------- *)
\* db_url from the environment, else the default URL and its acknowledgement
Start ==
    /\ pc = "start"
    /\ \E dbUrlSet \in BOOLEAN : pc' = IF dbUrlSet THEN "connect" ELSE "ack"
    /\ UNCHANGED <<typed, conn, cursor, email, password, confirm_password,
                   response, hashed_password, user, name, users, pending,
                   users0, idSeq, now, exitCode, diag, exc, excAt, rolledBack,
                   namePrompted, rejection>>

\* input("Press Enter to continue or Ctrl+C to abort..."): the line is dropped
AckPrompt ==
    /\ pc = "ack"
    /\ typed # <<>>
    /\ typed' = <<>>
    /\ pc' = "connect"
    /\ UNCHANGED <<conn, cursor, email, password, confirm_password,
                   response, hashed_password, user, name, users, pending,
                   users0, idSeq, now, exitCode, diag, exc, excAt, rolledBack,
                   namePrompted, rejection>>

\* psycopg2.connect(...) and conn.cursor() succeed
Connect ==
    /\ pc = "connect"
    /\ conn' = "open"
    /\ cursor' = "open"
    /\ pc' = "email"
    /\ UNCHANGED <<typed, email, password, confirm_password, response,
                   hashed_password, user, name, users, pending, users0, idSeq,
                   now, exitCode, diag, exc, excAt, rolledBack, namePrompted, rejection>>

\* the connection attempt raises: diagnostic and sys.exit(1)
ConnectFails ==
    /\ pc = "connect"
    /\ Terminate("ConnectError", "connect", "Failed to connect to database")
    /\ UNCHANGED <<typed, conn, cursor, email, password, confirm_password,
                   response, hashed_password, user, name, users, pending,
                   users0, idSeq, now, rolledBack, namePrompted, rejection>>

\* one round of the loop of get_email_input; email is assigned on return
GetEmailInput ==
    /\ pc = "email"
    /\ typed # <<>>
    /\ typed' = <<>>
    /\ LET stripped == Strip(typed[1])
       IN  IF stripped = <<>>
           THEN /\ pc' = "email"
                /\ rejection' = "Email cannot be empty"
                /\ email' = email
           ELSE IF ~EmailRegexMatch(stripped)
           THEN /\ pc' = "email"
                /\ rejection' = "Please enter a valid email address"
                /\ email' = email
           ELSE /\ pc' = "password"
                /\ rejection' = ""
                /\ email' = stripped
    /\ UNCHANGED <<conn, cursor, password, confirm_password,
                   response, hashed_password, user, name, users, pending,
                   users0, idSeq, now, exitCode, diag, exc, excAt, rolledBack,
                   namePrompted>>

\* get_password_input: the first prompt and the length check
GetPasswordInput ==
    /\ pc = "password"
    /\ typed # <<>>
    /\ typed' = <<>>
    /\ password' = typed[1]
    /\ IF PasswordTooShort(typed[1])
       THEN /\ pc' = "password"
            /\ rejection' = "Password must be at least 6 characters long"
       ELSE /\ pc' = "confirm_password"
            /\ rejection' = ""
    /\ UNCHANGED <<conn, cursor, email, confirm_password, response,
                   hashed_password, user, name, users, pending, users0, idSeq,
                   now, exitCode, diag, exc, excAt, rolledBack, namePrompted>>

\* get_password_input: the confirmation prompt and the equality check
GetPasswordConfirm ==
    /\ pc = "confirm_password"
    /\ typed # <<>>
    /\ typed' = <<>>
    /\ confirm_password' = typed[1]
    /\ IF PasswordMismatch(password, typed[1])
       THEN /\ pc' = "password"
            /\ rejection' = "Passwords do not match"
       ELSE /\ pc' = "confirm"
            /\ rejection' = ""
    /\ UNCHANGED <<conn, cursor, email, password, response,
                   hashed_password, user, name, users, pending, users0, idSeq,
                   now, exitCode, diag, exc, excAt, rolledBack, namePrompted>>

\* confirm_action and the early return of main() when it is declined
ConfirmAction ==
    /\ pc = "confirm"
    /\ typed # <<>>
    /\ typed' = <<>>
    /\ response' = Lower(Strip(typed[1]))
    /\ IF IsAffirmative(response')
       THEN /\ pc' = "hash"
            /\ UNCHANGED <<exitCode, diag, exc, excAt>>
       ELSE Terminate("none", "confirm", "Operation cancelled")
    /\ UNCHANGED <<conn, cursor, email, password, confirm_password,
                   hashed_password, user, name, users, pending, users0, idSeq,
                   now, rolledBack, namePrompted, rejection>>

\* bcrypt.hashpw(password.encode('utf-8'), bcrypt.gensalt())
HashPassword ==
    /\ pc = "hash"
    /\ \E salt \in Salts : hashed_password' = Hashpw(password, salt)
    /\ pc' = "lookup"
    /\ UNCHANGED <<typed, conn, cursor, email, password, confirm_password,
                   response, user, name, users, pending, users0, idSeq, now,
                   exitCode, diag, exc, excAt, rolledBack, namePrompted, rejection>>

\* the lookup SELECT and fetchone()
LookupUser ==
    /\ pc = "lookup"
    /\ user' = SelectByEmail(pending, email)
    /\ IF user' = {}
       THEN pc' = "name" /\ namePrompted' = TRUE
       ELSE pc' = "update" /\ namePrompted' = namePrompted
    /\ UNCHANGED <<typed, conn, cursor, email, password, confirm_password,
                   response, hashed_password, name, users, pending, users0,
                   idSeq, now, exitCode, diag, exc, excAt, rolledBack, rejection>>

\* get_name_input(email)
GetNameInput ==
    /\ pc = "name"
    /\ typed # <<>>
    /\ typed' = <<>>
    /\ name' = ChooseName(typed[1], email)
    /\ pc' = "insert"
    /\ UNCHANGED <<conn, cursor, email, password, confirm_password,
                   response, hashed_password, user, users, pending, users0,
                   idSeq, now, exitCode, diag, exc, excAt, rolledBack,
                   namePrompted, rejection>>

\* the INSERT ... RETURNING id; datetime.now() is read twice
InsertUser ==
    /\ pc = "insert"
    /\ \E d \in 0..MaxTick :
         /\ pending' = InsertRow(pending, idSeq + 1, now, now + d, email,
                                 name, hashed_password)
         /\ now' = now + d
    /\ idSeq' = idSeq + 1
    /\ pc' = "commit"
    /\ UNCHANGED <<typed, conn, cursor, email, password, confirm_password,
                   response, hashed_password, user, name, users, users0,
                   exitCode, diag, exc, excAt, rolledBack, namePrompted, rejection>>

\* the UPDATE of the row found by the lookup
UpdateUser ==
    /\ pc = "update"
    /\ pending' = UpdateRows(pending, email, hashed_password, now)
    /\ pc' = "commit"
    /\ UNCHANGED <<typed, conn, cursor, email, password, confirm_password,
                   response, hashed_password, user, name, users, users0,
                   idSeq, now, exitCode, diag, exc, excAt, rolledBack,
                   namePrompted, rejection>>

\* conn.commit() of either branch
Commit ==
    /\ pc = "commit"
    /\ users' = TxCommit(users, pending)
    /\ pending' = users'
    /\ pc' = "report"
    /\ UNCHANGED <<typed, conn, cursor, email, password, confirm_password,
                   response, hashed_password, user, name, users0, idSeq, now,
                   exitCode, diag, exc, excAt, rolledBack, namePrompted, rejection>>

\* the final SELECT, the summary, the finally block and the normal return
Report ==
    /\ pc = "report"
    /\ IF SelectByEmail(pending, email) = {}
       THEN ExceptHandler("TypeError")
       ELSE /\ Terminate("none", "report", "Operation completed successfully")
            /\ Finally
            /\ UNCHANGED <<users, pending, rolledBack>>
    /\ UNCHANGED <<typed, email, password, confirm_password, response,
                   hashed_password, user, name, users0, idSeq, now,
                   namePrompted, rejection>>

\* a statement of the try block (lookup, insert, update, commit, final
\* select) raises a database error
DatabaseError ==
    /\ pc \in {"lookup", "insert", "update", "commit", "report"}
    /\ ExceptHandler("DatabaseError")
    /\ UNCHANGED <<typed, email, password, confirm_password, response,
                   hashed_password, user, name, users0, idSeq, now,
                   namePrompted, rejection>>

\* Ctrl+C at a prompt, before a line is entered: KeyboardInterrupt is not
\* an Exception, so inside the try block only the finally block runs; the
\* handler of __main__ exits 1
Interrupt ==
    /\ pc \in Prompts
    /\ typed = <<>>
    /\ Terminate("KeyboardInterrupt", pc, "Operation cancelled by user")
    /\ IF pc = "name"
       THEN Finally /\ pending' = users
       ELSE UNCHANGED <<conn, cursor, pending>>
    /\ UNCHANGED <<typed, email, password, confirm_password, response,
                   hashed_password, user, name, users, users0, idSeq, now,
                   rolledBack, namePrompted, rejection>>

\* end of input at a prompt: EOFError is an Exception, caught by the handler
\* of main() at the name prompt and by the handler of __main__ elsewhere
EndOfInput ==
    /\ pc \in Prompts
    /\ typed = <<>>
    /\ IF pc = "name"
       THEN ExceptHandler("EOFError")
       ELSE /\ Terminate("EOFError", pc, "Unexpected error")
            /\ UNCHANGED <<conn, cursor, users, pending, rolledBack>>
    /\ UNCHANGED <<typed, email, password, confirm_password, response,
                   hashed_password, user, name, users0, idSeq, now,
                   namePrompted, rejection>>

Next ==
    \/ TypeLine
    \/ Start
    \/ AckPrompt
    \/ Connect
    \/ ConnectFails
    \/ GetEmailInput
    \/ GetPasswordInput
    \/ GetPasswordConfirm
    \/ ConfirmAction
    \/ HashPassword
    \/ LookupUser
    \/ GetNameInput
    \/ InsertUser
    \/ UpdateUser
    \/ Commit
    \/ Report
    \/ DatabaseError
    \/ Interrupt
    \/ EndOfInput

Spec == Init /\ [][Next]_vars

(* ------------------------- vocabulary of the claims -------------------- *)
AnswerIsYes(r) == r = <<"y", "e", "s">> \/ r = <<"y">>

EmailAbsent == \A r \in users0 : r.email # email

EmailPresent == \E r \in users0 : r.email = email

Completed == pc = "exit" /\ diag = "Operation completed successfully"

AtPositions(s) == {i \in 1..Len(s) : s[i] = "@"}

\* local@domain.tld: exactly one '@', a non-empty local part and a domain
\* holding a dot with text on both sides
HasEmailShape(s) ==
    /\ Cardinality(AtPositions(s)) = 1
    /\ LET i == CHOOSE k \in AtPositions(s) : TRUE
           domain == SubSeq(s, i + 1, Len(s))
       IN  /\ i > 1
           /\ \E j \in 2..(Len(domain) - 1) : domain[j] = "."

\* empty, no '@', or no dot after an '@'
MalformedEmail(line) ==
    \/ \A i \in 1..Len(line) : line[i] = " "
    \/ AtPositions(line) = {}
    \/ ~\E i \in AtPositions(line) : \E j \in (i + 1)..Len(line) : line[j] = "."

\* the program reads the line entered at prompt p
Reads(p) == pc = p /\ typed # <<>> /\ typed' = <<>>

NewRows == users \ users0

(* ------------------------------- claims -------------------------------- *)
\* C1: when the answer to the confirmation prompt (trimmed, lower-cased) is
\* neither 'yes' nor 'y', the users table at process exit equals the table
\* before the run, whether or not the entered email exists.
C1_DeclineLeavesTable ==
    (pc = "exit" /\ ~AnswerIsYes(response)) => (users = users0 /\ pending = users0)

C1_Witness ==
    /\ pc = "exit"
    /\ diag = "Operation cancelled"
    /\ response = <<"n", "o">>
    /\ EmailPresent
    /\ users = users0

\* C2 as stated: every confirmed run without a database error whose email
\* matches no row ends with the old table plus exactly one new row holding
\* the entered email, role admin, active, and a hash of the password.
OneNewAdminRow ==
    \E r \in users :
        /\ r \notin users0
        /\ users = users0 \cup {r}
        /\ Cardinality(users) = Cardinality(users0) + 1
        /\ r.email = email
        /\ r.role = "admin"
        /\ r.is_active = TRUE
        /\ Checkpw(password, r.password_hash)

C2_Original ==
    (pc = "exit" /\ AnswerIsYes(response) /\ exc # "DatabaseError" /\ EmailAbsent)
        => OneNewAdminRow

\* C2 amended: the same, for the runs that are also not ended at the name
\* prompt by an interrupt or by end of input.
C2_InsertOneAdminRow ==
    (pc = "exit" /\ AnswerIsYes(response) /\ exc = "none" /\ EmailAbsent)
        => OneNewAdminRow

C2_Witness ==
    /\ Completed
    /\ EmailAbsent
    /\ users0 # {}
    /\ Cardinality(users) = Cardinality(users0) + 1

\* C3: a confirmed run without a database error whose email matches a row
\* changes only that row's hash, role, active flag and updated timestamp;
\* its id, name, email and creation time, the number of rows and every
\* other row are unchanged, and the name prompt is never shown.
C3_UpdateOnlyMatchingRow ==
    (pc = "exit" /\ AnswerIsYes(response) /\ exc # "DatabaseError" /\ EmailPresent)
        => /\ Cardinality(users) = Cardinality(users0)
           /\ \A r0 \in users0 :
                IF r0.email = email
                THEN \E r \in users :
                        /\ r.id = r0.id
                        /\ r.email = r0.email
                        /\ r.name = r0.name
                        /\ r.created_at = r0.created_at
                        /\ r.role = "admin"
                        /\ r.is_active = TRUE
                        /\ Checkpw(password, r.password_hash)
                ELSE r0 \in users
           /\ ~namePrompted

C3_Witness ==
    /\ Completed
    /\ users0 = {ExistingRow1, ExistingRow2}
    /\ email = ExistingRow1.email
    /\ users # users0

\* C4: on every exit path of a run that opened a connection, the cursor
\* and the connection are closed before the process terminates.
C4_AllExitPathsClose ==
    (pc = "exit" /\ conn # "none") => (conn = "closed" /\ cursor = "closed")

\* C5: the exit status is 0 exactly when the run ends in the success
\* terminal state; every other outcome, a declined confirmation included,
\* ends with a non-zero status.
C5_ExitZeroIffSuccess ==
    pc = "exit" => (exitCode = 0 <=> diag = "Operation completed successfully")

\* C6: an interrupt at any prompt ends the process with a non-zero exit
\* status and leaves the users table as it was before the run.
C6_InterruptExitsNonZero ==
    (pc = "exit" /\ exc = "KeyboardInterrupt")
        => (exitCode # 0 /\ users = users0 /\ excAt \in Prompts)

C6_Witness ==
    /\ pc = "exit"
    /\ exc = "KeyboardInterrupt"
    /\ excAt = "name"
    /\ conn = "closed"
    /\ exitCode = 1

\* C7: a database error raised by the lookup, the insert, the update or the
\* commit is followed by a rollback and a non-zero exit, and the users
\* table is as it was before the run.
C7_DbErrorRollsBack ==
    (pc = "exit" /\ exc = "DatabaseError"
        /\ excAt \in {"lookup", "insert", "update", "commit"})
        => (rolledBack /\ exitCode # 0 /\ users = users0 /\ pending = users0)

C7_Witness ==
    /\ pc = "exit"
    /\ exc = "DatabaseError"
    /\ excAt = "commit"
    /\ user # {}
    /\ rolledBack

\* C8: the email collector returns only a trimmed, non-empty string of the
\* shape local@domain.tld; an entered line that is empty, has no '@' or has
\* no dot in the domain is rejected, the email prompt is shown again and
\* the users table is not touched.
C8_EmailCollector ==
    [][Reads("email") =>
          /\ MalformedEmail(typed[1]) =>
                (pc' = "email" /\ email' = email /\ users' = users
                    /\ pending' = pending)
          /\ pc' # "email" =>
                /\ pc' = "password"
                /\ email' # <<>>
                /\ email'[1] # " " /\ email'[Len(email')] # " "
                /\ HasEmailShape(email')]_vars

C8_Witness ==
    /\ pc = "email"
    /\ typed = <<>>
    /\ rejection = "Please enter a valid email address"
    /\ email = <<>>
    /\ users = users0

\* C9: the password collector returns a password only when it has at least
\* 6 characters and the confirmation equals it; a shorter first entry is
\* rejected without a confirmation prompt, a mismatching confirmation
\* restarts at the first prompt, and the password hashed and stored
\* satisfies both conditions.
C9_PasswordCollector ==
    /\ [][/\ (Reads("password") /\ Len(typed[1]) < MinPasswordLen)
                => pc' = "password"
          /\ (Reads("confirm_password") /\ typed[1] # password)
                => pc' = "password"
          /\ (Reads("confirm_password") /\ pc' # "password")
                => /\ pc' = "confirm"
                   /\ Len(password') >= MinPasswordLen
                   /\ typed[1] = password']_vars
    /\ [](\A r \in NewRows :
            r.email = email =>
                /\ Checkpw(password, r.password_hash)
                /\ Len(password) >= MinPasswordLen
                /\ confirm_password = password)

C9_Witness ==
    /\ pc = "password"
    /\ rejection = "Passwords do not match"
    /\ Len(password) >= MinPasswordLen
    /\ Len(confirm_password) = Len(password)
    /\ confirm_password # password

\* C10: a run that ends through the database-error path (rollback,
\* 'Database error' diagnostic, non-zero exit) has committed nothing: the
\* users table is as it was before the run.
C10_NoPartialSuccess ==
    (pc = "exit" /\ diag = "Database error") => users = users0

====
